---- MODULE Spec2Model ----
(***************************************************************************)
(* A model of dba_pricerunner_scraper.py: the price normaliser, the        *)
(* bounded JSON array extractor, PriceRunner record assembly and the       *)
(* filter / sort / pair pipeline of main.                                  *)
(*                                                                         *)
(* Python strings are sequences of one-character strings.  Python's None   *)
(* is the empty tuple <<>>.  Positions are 1-based; a failed find() is 0   *)
(* where Python gives -1.                                                  *)
(***************************************************************************)
EXTENDS Integers, Sequences, FiniteSets, TLC

VARIABLES
    \* _extract_json_array
    text, key, i, j, in_str, esc, depth, arr_text, jpc,
    \* normalize_price and its callers; txt is the listing text a DBA price
    \* string was extracted from
    price_str, price_num, branch, prev_num, origin, ppc, txt,
    \* search_pricerunner_requests, from json.loads on
    products, json_ok, max_results, items, at, raised, apc,
    \* main: filter, sort, compare
    dba, pr, min_price, max_price, top, minp, maxp, dba_f, pr_f,
    d_sorted, p_sorted, rows, mpc

jvars == <<text, key, i, j, in_str, esc, depth, arr_text, jpc>>
pvars == <<price_str, price_num, branch, prev_num, origin, ppc, txt>>
avars == <<products, json_ok, max_results, items, at, raised, apc>>
mvars == <<dba, pr, min_price, max_price, top, minp, maxp, dba_f, pr_f,
           d_sorted, p_sorted, rows, mpc>>
vars == <<jvars, pvars, avars, mvars>>

None == <<>>

QUOTE == "\""
BSL == "\\"

----------------------------------------------------------------------------
(* Generic string helpers.                                                 *)

\* All sequences over S of length at most n.
SeqsUpTo(S, n) == UNION {[1..k -> S] : k \in 0..n}

\* pat occurs in t at position p.
OccursAt(t, pat, p) ==
    /\ p >= 1
    /\ p + Len(pat) - 1 <= Len(t)
    /\ \A k \in 1..Len(pat) : t[p + k - 1] = pat[k]

\* str.find(pat, start): the least position >= from where pat occurs, 0 if none.
Find(t, pat, from) ==
    LET hits == {p \in from..Len(t) : OccursAt(t, pat, p)}
    IN  IF hits = {} THEN 0 ELSE CHOOSE p \in hits : \A q \in hits : p <= q

----------------------------------------------------------------------------
(* _extract_json_array(text, key)                                          *)

\* needle = f'"{key}":['
Needle(ky) == <<QUOTE>> \o ky \o <<QUOTE, ":", "[">>

\* i = text.find('[', idx)
OpenBracket(t, ky, idx) == Find(t, <<"[">>, idx)

\* A faulty variant of ToggleStr: every quote toggles, escaped or not.
ToggleStrNoEsc(ch, e, s) == IF ch = QUOTE THEN ~s ELSE s

\* if ch == '"' and not esc: in_str = not in_str
ToggleStr(ch, e, s) == IF ch = QUOTE /\ ~e THEN ~s ELSE s

\* A faulty variant of ScanExhausted: the unbalanced tail is returned.
ScanExhaustedPartial(t, from) == SubSeq(t, from, Len(t))

\* The for loop ran off the end of the text: return None.
ScanExhausted(t, from) == None

JFind ==
    /\ jpc = "find"
    /\ LET idx == Find(text, Needle(key), 1)
       IN  IF idx = 0 \/ OpenBracket(text, key, idx) = 0
           THEN /\ arr_text' = None
                /\ jpc' = "done"
                /\ UNCHANGED <<i, j>>
           ELSE /\ i' = OpenBracket(text, key, idx)
                /\ j' = OpenBracket(text, key, idx)
                /\ jpc' = "scan"
                /\ UNCHANGED arr_text
    /\ in_str' = FALSE
    /\ esc' = FALSE
    /\ depth' = 0
    /\ UNCHANGED <<text, key, pvars, avars, mvars>>

\* One iteration of `for j, ch in enumerate(text[i:], start=i)`.
JScanStep ==
    /\ jpc = "scan"
    /\ j <= Len(text)
    /\ LET ch == text[j]
           s  == ToggleStr(ch, esc, in_str)
       IN  /\ in_str' = s
           /\ IF ch = BSL /\ ~esc
              THEN \* esc = True; continue
                   /\ esc' = TRUE
                   /\ j' = j + 1
                   /\ UNCHANGED <<depth, arr_text, jpc>>
              ELSE /\ esc' = FALSE
                   /\ IF ~s /\ ch = "["
                      THEN /\ depth' = depth + 1
                           /\ j' = j + 1
                           /\ UNCHANGED <<arr_text, jpc>>
                      ELSE IF ~s /\ ch = "]"
                      THEN /\ depth' = depth - 1
                           /\ IF depth - 1 = 0
                              THEN /\ arr_text' = SubSeq(text, i, j)
                                   /\ jpc' = "done"
                                   /\ UNCHANGED j
                              ELSE /\ j' = j + 1
                                   /\ UNCHANGED <<arr_text, jpc>>
                      ELSE /\ j' = j + 1
                           /\ UNCHANGED <<depth, arr_text, jpc>>
    /\ UNCHANGED <<text, key, i, pvars, avars, mvars>>

JScanEnd ==
    /\ jpc = "scan"
    /\ j > Len(text)
    /\ arr_text' = ScanExhausted(text, i)
    /\ jpc' = "done"
    /\ UNCHANGED <<text, key, i, j, in_str, esc, depth, pvars, avars, mvars>>

\* Bounds and inputs of the extractor.
MaxBody == 5
JsonChars == {"[", "]", QUOTE, BSL, "x"}
JsonKeys == {<<"k">>, <<"[">>}
JsonPrefixes == {<<>>, <<"x", "[">>}

JInit ==
    /\ key \in JsonKeys
    /\ \E pre \in JsonPrefixes, mid \in {<<>>, Needle(key)},
          body \in SeqsUpTo(JsonChars, MaxBody) :
            text = pre \o mid \o body
    /\ i = 0
    /\ j = 0
    /\ in_str = FALSE
    /\ esc = FALSE
    /\ depth = 0
    /\ arr_text = None
    /\ jpc = "find"

JNext == JFind \/ JScanStep \/ JScanEnd

----------------------------------------------------------------------------
(* What the extractor is to return, stated over whole texts: positions are *)
(* classified by counting, not by running the loop.                        *)

\* The number of consecutive backslashes that end just before position p.
BslRun(t, from, p) ==
    LET runs == {n \in 0..(p - from) : \A q \in (p - n)..(p - 1) : t[q] = BSL}
    IN  CHOOSE n \in runs : \A m \in runs : m <= n

\* A quote that is not preceded by an unescaped backslash.
LiveQuote(t, from, p) == t[p] = QUOTE /\ BslRun(t, from, p) % 2 = 0

\* Position p lies inside a quoted string opened at or after from.
InQuoted(t, from, p) ==
    Cardinality({q \in from..p : LiveQuote(t, from, q)}) % 2 = 1

\* Brackets outside quoted strings, opened minus closed, over from..p.
DepthAt(t, from, p) ==
    Cardinality({q \in from..p : t[q] = "[" /\ ~InQuoted(t, from, q)})
  - Cardinality({q \in from..p : t[q] = "]" /\ ~InQuoted(t, from, q)})

\* The positions at which the bracket opened at from is closed.
ClosePositions(t, from) ==
    {p \in from..Len(t) :
        t[p] = "]" /\ ~InQuoted(t, from, p) /\ DepthAt(t, from, p) = 0}

FirstClose(t, from) ==
    CHOOSE p \in ClosePositions(t, from) : \A q \in ClosePositions(t, from) : p <= q

\* Where '"<key>":[' first occurs (0: nowhere) and the first '[' from there.
NeedleAt == Find(text, Needle(key), 1)
OpenAt == CHOOSE p \in NeedleAt..Len(text) :
              text[p] = "[" /\ \A q \in NeedleAt..(p - 1) : text[q] # "["

\* C1: when '"<key>":[' occurs in the text and the bracket opened there (the
\* first '[' at or after the match) is closed later, the extractor returns
\* exactly the text from that '[' through the first ']' at which the depth
\* of brackets outside quoted strings is back to zero; a quote after an
\* unescaped backslash does not open or close a string.
C1_BalancedArrayReturned ==
    (jpc = "done" /\ NeedleAt # 0 /\ ClosePositions(text, OpenAt) # {})
        => arr_text = SubSeq(text, OpenAt, FirstClose(text, OpenAt))

\* C1 witness: a finished scan whose array holds a ']' inside a quoted
\* string, so the returned text runs past that ']'.
C1_Witness ==
    /\ jpc = "done"
    /\ NeedleAt # 0
    /\ arr_text # None
    /\ \E p \in OpenAt..(OpenAt + Len(arr_text) - 2) :
           text[p] = "]" /\ InQuoted(text, OpenAt, p)

\* C2: the extractor returns None when '"<key>":[' does not occur and when
\* the text ends before the depth is back to zero; whatever it returns is a
\* balanced array: it starts at '[', ends at ']' outside any string, and
\* opens as many brackets as it closes.
C2_AbsentOrBalanced ==
    jpc = "done" =>
        /\ NeedleAt = 0 => arr_text = None
        /\ (NeedleAt # 0 /\ ClosePositions(text, OpenAt) = {}) => arr_text = None
        /\ arr_text # None =>
              /\ arr_text[1] = "["
              /\ arr_text[Len(arr_text)] = "]"
              /\ ~InQuoted(arr_text, 1, Len(arr_text))
              /\ DepthAt(arr_text, 1, Len(arr_text)) = 0

\* C2 witness: the key is found, an unterminated string swallows a ']' and
\* the scan ends with None.
C2_Witness ==
    /\ jpc = "done"
    /\ NeedleAt # 0
    /\ arr_text = None
    /\ InQuoted(text, OpenAt, Len(text))
    /\ \E p \in OpenAt..Len(text) : text[p] = "]"

----------------------------------------------------------------------------
(* normalize_price(price_str)                                              *)
(*                                                                         *)
(* A float is the pair <<m, e>> standing for m / 10^e, with e the number   *)
(* of fractional digits left once trailing zeros are dropped, so that two  *)
(* pairs are equal exactly when the numbers are.  This is exact for the    *)
(* decimal strings of up to 15 significant digits that float() and str()   *)
(* round-trip.                                                             *)

DigitChars == <<"0", "1", "2", "3", "4", "5", "6", "7", "8", "9">>
Digits == {DigitChars[n] : n \in 1..10}
NBSP == "nbsp"          \* the one character U+00A0
Whitespace == {" "}     \* what \s and strip() meet once NBSP is replaced

DigitVal(c) ==
    CASE c = "0" -> 0 [] c = "1" -> 1 [] c = "2" -> 2 [] c = "3" -> 3
      [] c = "4" -> 4 [] c = "5" -> 5 [] c = "6" -> 6 [] c = "7" -> 7
      [] c = "8" -> 8 [] c = "9" -> 9

RECURSIVE Pow10(_)
Pow10(n) == IF n = 0 THEN 1 ELSE 10 * Pow10(n - 1)

RECURSIVE IntOf(_)
IntOf(ds) ==
    IF ds = <<>> THEN 0
    ELSE 10 * IntOf(SubSeq(ds, 1, Len(ds) - 1)) + DigitVal(ds[Len(ds)])

RECURSIVE DigitsOf(_)
DigitsOf(n) ==
    IF n < 10 THEN <<DigitChars[n + 1]>>
    ELSE DigitsOf(n \div 10) \o <<DigitChars[(n % 10) + 1]>>

RECURSIVE StripTrailingZeros(_)
StripTrailingZeros(ds) ==
    IF ds # <<>> /\ ds[Len(ds)] = "0"
    THEN StripTrailingZeros(SubSeq(ds, 1, Len(ds) - 1))
    ELSE ds

RECURSIVE PadZeros(_, _)
PadZeros(ds, width) == IF Len(ds) >= width THEN ds ELSE PadZeros(<<"0">> \o ds, width)

Keep(s, S) == SelectSeq(s, LAMBDA c : c \in S)
Drop(s, S) == SelectSeq(s, LAMBDA c : c \notin S)

\* str.replace(pat, rep): every non-overlapping occurrence, left to right.
RECURSIVE Replace(_, _, _)
Replace(s, pat, rep) ==
    IF Len(s) < Len(pat) THEN s
    ELSE IF OccursAt(s, pat, 1)
    THEN rep \o Replace(SubSeq(s, Len(pat) + 1, Len(s)), pat, rep)
    ELSE <<s[1]>> \o Replace(Tail(s), pat, rep)

\* str.rfind(c): the last position of c, 0 if none.
RFind(s, c) ==
    LET hits == {p \in 1..Len(s) : s[p] = c}
    IN  IF hits = {} THEN 0 ELSE CHOOSE p \in hits : \A q \in hits : q <= p

\* str.strip()
Strip(s) ==
    LET solid == {p \in 1..Len(s) : s[p] \notin Whitespace}
    IN  IF solid = {} THEN <<>>
        ELSE SubSeq(s, CHOOSE p \in solid : \A q \in solid : p <= q,
                       CHOOSE p \in solid : \A q \in solid : q <= p)

\* A faulty variant of ParseFloat: a string without digits reads as zero.
ParseFloatLenient(core) ==
    IF Cardinality({p \in 1..Len(core) : core[p] = "."}) > 1
    THEN None
    ELSE LET dot == Find(core, <<".">>, 1)
             ip  == IF dot = 0 THEN core ELSE SubSeq(core, 1, dot - 1)
             fp  == IF dot = 0 THEN <<>> ELSE SubSeq(core, dot + 1, Len(core))
             fz  == StripTrailingZeros(fp)
         IN  <<IntOf(ip \o fz), Len(fz)>>

\* try: return float(core) / except Exception: return None, for a core made
\* of digits and '.' only: float() raises unless there is a digit and at
\* most one '.'.
ParseFloat(core) ==
    IF \/ Cardinality({p \in 1..Len(core) : core[p] = "."}) > 1
       \/ Keep(core, Digits) = <<>>
    THEN None
    ELSE LET dot == Find(core, <<".">>, 1)
             ip  == IF dot = 0 THEN core ELSE SubSeq(core, 1, dot - 1)
             fp  == IF dot = 0 THEN <<>> ELSE SubSeq(core, dot + 1, Len(core))
             fz  == StripTrailingZeros(fp)
         IN  <<IntOf(ip \o fz), Len(fz)>>

\* s = price_str.replace("kr.", "").replace("kr", "").replace("DKK", "")
StripCurrency(s) ==
    Replace(Replace(Replace(s, <<"k", "r", ".">>, <<>>), <<"k", "r">>, <<>>),
            <<"D", "K", "K">>, <<>>)

\* s = s.replace("\u00A0", " "); s = s.strip()
Trimmed(s) == Strip([p \in 1..Len(s) |-> IF s[p] = NBSP THEN " " ELSE s[p]])

\* cleaned = re.sub(r"[^0-9\.,\s]", "", s)
Cleaned(s) == Keep(Trimmed(StripCurrency(s)), Digits \cup {".", ","} \cup Whitespace)

\* re.search(r'(?:[\.\s]\d{3})', cleaned)
HasThousandsGroup(cleaned) ==
    \E p \in 1..(Len(cleaned) - 3) :
        /\ cleaned[p] \in {"."} \cup Whitespace
        /\ \A q \in (p + 1)..(p + 3) : cleaned[q] \in Digits

\* The thousands branch: dots and whitespace deleted, ',' read as '.'.
ThousandsCore(cleaned) ==
    LET core == Drop(cleaned, {"."} \cup Whitespace)
    IN  Keep([p \in 1..Len(core) |-> IF core[p] = "," THEN "." ELSE core[p]],
             Digits \cup {"."})

NoSep == ""

\* A faulty variant of DecimalSep: one trailing digit is not taken for a fraction.
DecimalSepTwoOrThree(cleaned) ==
    LET last_dot   == RFind(cleaned, ".")
        last_comma == RFind(cleaned, ",")
    IN  IF last_dot = 0 /\ last_comma = 0 THEN NoSep
        ELSE IF last_dot > last_comma
        THEN IF Len(cleaned) - last_dot \in {2, 3} THEN "." ELSE NoSep
        ELSE IF Len(cleaned) - last_comma \in {2, 3} THEN "," ELSE NoSep

\* decimal_sep: "." or ",", or NoSep for None.
DecimalSep(cleaned) ==
    LET last_dot   == RFind(cleaned, ".")
        last_comma == RFind(cleaned, ",")
    IN  IF last_dot = 0 /\ last_comma = 0 THEN NoSep
        ELSE IF last_dot > last_comma
        THEN IF Len(cleaned) - last_dot \in {1, 2, 3} THEN "." ELSE NoSep
        ELSE IF Len(cleaned) - last_comma \in {1, 2, 3} THEN "," ELSE NoSep

\* The core parsed when a decimal separator was chosen.
DecimalCore(cleaned, sep) ==
    LET core == IF sep = "."
                THEN Drop(cleaned, {","} \cup Whitespace)
                ELSE LET nodots == Drop(cleaned, {"."} \cup Whitespace)
                     IN  [p \in 1..Len(nodots) |->
                             IF nodots[p] = "," THEN "." ELSE nodots[p]]
    IN  Keep(core, Digits \cup {"."})

\* Which return statement of normalize_price is taken, cleaned being the
\* string the analysis runs on.
BranchOf(s, cleaned) ==
    IF s = <<>> THEN "falsy"
    ELSE IF cleaned = <<>> THEN "nothing"
    ELSE IF HasThousandsGroup(cleaned) THEN "thousands"
    ELSE IF DecimalSep(cleaned) = NoSep THEN "integer"
    ELSE "decimal"

\* The value returned on that branch.
ValueOf(b, cleaned) ==
    IF b \in {"falsy", "nothing"} THEN None
    ELSE IF b = "thousands" THEN ParseFloat(ThousandsCore(cleaned))
    ELSE IF b = "integer"
    THEN ParseFloat(Drop(cleaned, {".", ","} \cup Whitespace))
    ELSE ParseFloat(DecimalCore(cleaned, DecimalSep(cleaned)))

Branch(s) == BranchOf(s, Cleaned(s))

NormalizePrice(s) ==
    LET cleaned == Cleaned(s)
        b == BranchOf(s, cleaned)
    IN  ValueOf(b, cleaned)

\* str(v) for the float v = <<m, e>>: the shortest decimal that reads back
\* as v, in exponent form below 1e-4.  (Values of 1e16 and more, which
\* Python also prints in exponent form, are beyond the integers used here.)
Str(v) ==
    LET m == v[1]
        e == v[2]
    IN  IF m # 0 /\ e > 4 /\ m * Pow10(4) < Pow10(e)
        THEN LET ds == DigitsOf(m)
                 ex == DigitsOf(e - Len(ds) + 1)
             IN  <<ds[1]>>
                 \o (IF Len(ds) > 1 THEN <<".">> \o Tail(ds) ELSE <<>>)
                 \o <<"e", "-">> \o PadZeros(ex, 2)
        ELSE DigitsOf(m \div Pow10(e)) \o <<".">>
             \o (IF e = 0 THEN <<"0">> ELSE PadZeros(DigitsOf(m % Pow10(e)), e))

----------------------------------------------------------------------------
(* normalize_price as it is called: on a raw string (search_*, main), on   *)
(* the string form of a value it returned, and on the same string with the *)
(* case of its currency letters changed.                                   *)

\* Bounds and inputs of the normaliser.
MaxLen == 4
PriceChars == {"0", "1", ".", ",", " "}
PriceAffixes ==
    { <<<<>>, <<>>>>,
      <<<<"k", "r", ".", " ">>, <<>>>>,
      <<<<>>, <<" ", "k", "r", ".">>>>,
      <<<<>>, <<"k", "r">>>>,
      <<<<>>, <<NBSP, "D", "K", "K">>>>,
      <<<<>>, <<"x">>>>,
      <<<<"x", " ">>, <<>>>> }

Lower == <<"k", "r", "d">>
Upper == <<"K", "R", "D">>

\* The character with its letter case changed.
SwapCase(c) ==
    IF \E n \in 1..3 : Lower[n] = c THEN Upper[CHOOSE n \in 1..3 : Lower[n] = c]
    ELSE IF \E n \in 1..3 : Upper[n] = c THEN Lower[CHOOSE n \in 1..3 : Upper[n] = c]
    ELSE c

CurrencyLetters(s) == {p \in 1..Len(s) : SwapCase(s[p]) # s[p]}

----------------------------------------------------------------------------
(* extract_price_string, lines 100-123.  re.search tries the pattern       *)
(*   (\d{1,3}(?:[\.\s]\d{3})*(?:,\d{1,2})?)\s*(kr\.?|DKK)?                 *)
(* at each position from the left; every part after the first digit may    *)
(* match nothing, so the match starts at the first digit of the text and    *)
(* each greedy part takes all it can.                                       *)

\* \s on the text as it arrives: U+00A0 is whitespace to the regex.
ReWhitespace == Whitespace \cup {NBSP}

\* What re.IGNORECASE compares: the letter folded to lower case.
Folded(c) == IF \E n \in 1..3 : Upper[n] = c THEN SwapCase(c) ELSE c

\* The position of the first digit of s, 0 if it has none.
FirstDigit(s) ==
    IF \E p \in 1..Len(s) : s[p] \in Digits
    THEN CHOOSE p \in 1..Len(s) :
             /\ s[p] \in Digits
             /\ \A q \in 1..(p - 1) : s[q] \notin Digits
    ELSE 0

\* \d{1,3} at p, a digit: the position after the one to three digits taken.
LeadEnd(s, p) ==
    IF p + 1 <= Len(s) /\ s[p + 1] \in Digits
    THEN IF p + 2 <= Len(s) /\ s[p + 2] \in Digits THEN p + 3 ELSE p + 2
    ELSE p + 1

RECURSIVE GroupsEnd(_, _)
\* (?:[\.\s]\d{3})* at q: the position after the last group taken.
GroupsEnd(s, q) ==
    IF /\ q + 3 <= Len(s)
       /\ s[q] \in {"."} \cup ReWhitespace
       /\ \A p \in (q + 1)..(q + 3) : s[p] \in Digits
    THEN GroupsEnd(s, q + 4)
    ELSE q

\* (?:,\d{1,2})? at q.
FractionEnd(s, q) ==
    IF q + 1 <= Len(s) /\ s[q] = "," /\ s[q + 1] \in Digits
    THEN IF q + 2 <= Len(s) /\ s[q + 2] \in Digits THEN q + 3 ELSE q + 2
    ELSE q

RECURSIVE SpaceEnd(_, _)
\* \s* at q.
SpaceEnd(s, q) ==
    IF q <= Len(s) /\ s[q] \in ReWhitespace THEN SpaceEnd(s, q + 1) ELSE q

\* (kr\.?|DKK)? at q under re.IGNORECASE: group 2, None when it took nothing.
CurrencyAt(s, q) ==
    LET at_q(w) == /\ q + Len(w) - 1 <= Len(s)
                   /\ \A p \in 1..Len(w) : Folded(s[q + p - 1]) = w[p]
    IN  IF at_q(<<"k", "r", ".">>) THEN SubSeq(s, q, q + 2)
        ELSE IF at_q(<<"k", "r">>) THEN SubSeq(s, q, q + 1)
        ELSE IF at_q(<<"d", "k", "k">>) THEN SubSeq(s, q, q + 2)
        ELSE None

\* extract_price_string(text).  The fallback pattern (\d+[\d\.\s,]*) starts
\* with a digit as well, so it finds nothing where the first search found
\* nothing.
ExtractPriceString(s) ==
    LET p == FirstDigit(s)
    IN  IF s = <<>> \/ p = 0 THEN <<>>
        ELSE LET e   == FractionEnd(s, GroupsEnd(s, LeadEnd(s, p)))
                 num == SubSeq(s, p, e - 1)
                 m2  == CurrencyAt(s, SpaceEnd(s, e))
                 cur == IF m2 = None THEN <<"k", "r", ".">>
                        ELSE IF Len(m2) = 3 /\ Folded(m2[1]) = "d"
                        THEN <<"D", "K", "K">>
                        ELSE m2
             IN  Strip(num \o <<" ">> \o cur)

----------------------------------------------------------------------------
(* The normaliser and the extractor at work.                               *)

PInit ==
    /\ \E af \in PriceAffixes, body \in SeqsUpTo(PriceChars, MaxLen) :
           price_str = af[1] \o body \o af[2]
    /\ price_num = None
    /\ branch = "none"
    /\ prev_num = None
    /\ origin = "input"
    /\ ppc = "ready"
    /\ txt = None

\* price_num = normalize_price(price_str)
Normalize ==
    /\ ppc = "ready"
    /\ LET cleaned == Cleaned(price_str)
           b == BranchOf(price_str, cleaned)
       IN  /\ branch' = b
           /\ price_num' = ValueOf(b, cleaned)
    /\ ppc' = "done"
    /\ UNCHANGED <<price_str, prev_num, origin, txt, jvars, avars, mvars>>

\* normalize_price(str(v)) for a value v that normalize_price returned.
Reformat ==
    /\ ppc = "done"
    /\ origin = "input"
    /\ price_num # None
    /\ price_str' = Str(price_num)
    /\ prev_num' = price_num
    /\ origin' = "str"
    /\ ppc' = "ready"
    /\ UNCHANGED <<price_num, branch, txt, jvars, avars, mvars>>

\* The same price with the case of some letters of its currency token changed.
Recase ==
    /\ ppc = "done"
    /\ origin = "input"
    /\ \E ps \in SUBSET CurrencyLetters(price_str) :
           /\ ps # {}
           /\ price_str' = [p \in 1..Len(price_str) |->
                               IF p \in ps THEN SwapCase(price_str[p])
                               ELSE price_str[p]]
    /\ prev_num' = price_num
    /\ origin' = "recase"
    /\ ppc' = "ready"
    /\ UNCHANGED <<price_num, branch, txt, jvars, avars, mvars>>

\* search_dba_requests, lines 158-169, for an element with one text tag:
\* pstr = extract_price_string(txt); price = pstr, which normalize_price
\* then turns into the record's price_num.  The text is one whose own
\* normalize_price value is known, to compare the two.
Extract ==
    /\ ppc = "done"
    /\ origin = "input"
    /\ txt' = price_str
    /\ price_str' = ExtractPriceString(price_str)
    /\ prev_num' = price_num
    /\ origin' = "extract"
    /\ ppc' = "ready"
    /\ UNCHANGED <<price_num, branch, jvars, avars, mvars>>

PNext == Normalize \/ Reformat \/ Recase \/ Extract

----------------------------------------------------------------------------
(* The normaliser's claims.                                                *)

\* C3 (as claimed): normalize_price(str(v)) = v for every v that
\* normalize_price returns.
C3_IdempotentOnStr ==
    (origin = "str" /\ ppc = "done") => price_num = prev_num

\* C3 (amended): normalize_price(str(v)) = v for every v that
\* normalize_price returns and whose str(v) is plain decimal notation with
\* at most two digits after the point.
C3_IdempotentOnStrUpToTwoDecimals ==
    (origin = "str" /\ ppc = "done" /\ prev_num[2] <= 2) => price_num = prev_num

\* C3 witness: a value with two fractional digits read back from its str().
C3_Witness ==
    /\ origin = "str"
    /\ ppc = "done"
    /\ prev_num[2] = 2
    /\ price_num = prev_num

\* C4: changing only the letter case of the currency token of a price
\* string does not change the value normalize_price returns.
C4_CurrencyCaseInsensitive ==
    (origin = "recase" /\ ppc = "done") => price_num = prev_num

HasDigit(s) == \E p \in 1..Len(s) : s[p] \in Digits

\* C5: normalize_price returns None for every string without a digit.
C5_NoDigitsIsAbsent ==
    (ppc = "done" /\ ~HasDigit(price_str)) => price_num = None

\* C5 witness: a string without digits that gets as far as float(), on the
\* branch that chose a decimal separator.
C5_Witness ==
    /\ ppc = "done"
    /\ ~HasDigit(price_str)
    /\ branch = "decimal"
    /\ price_num = None

\* A '.' or whitespace followed by three digits and no fourth.
HasGroupOfExactlyThree(cleaned) ==
    \E p \in 1..(Len(cleaned) - 3) :
        /\ cleaned[p] \in {".", " "}
        /\ \A q \in (p + 1)..(p + 3) : cleaned[q] \in Digits
        /\ p + 4 <= Len(cleaned) => cleaned[p + 4] \notin Digits

\* C10: the thousands branch is taken exactly when the cleaned string has a
\* '.' or whitespace followed by exactly three digits (no fourth), and it
\* then returns the number read with every '.' and whitespace deleted and
\* ',' as the decimal point.
C10_ThousandsBranchIffExactlyThree ==
    (ppc = "done" /\ branch \notin {"falsy", "nothing"}) =>
        /\ (branch = "thousands") = HasGroupOfExactlyThree(Cleaned(price_str))
        /\ branch = "thousands" =>
               price_num = ParseFloat(ThousandsCore(Cleaned(price_str)))

\* What follows the later of the last '.' and the last ',' up to the end of
\* the cleaned string is one, two or three digits.
TailIsOneToThreeDigits(cleaned) ==
    LET last_dot   == RFind(cleaned, ".")
        last_comma == RFind(cleaned, ",")
        last == IF last_dot > last_comma THEN last_dot ELSE last_comma
    IN  /\ last # 0
        /\ Len(cleaned) - last \in {1, 2, 3}
        /\ \A p \in (last + 1)..Len(cleaned) : cleaned[p] \in Digits

\* C11: when the thousands rule does not fire, the result is the number
\* read with the later of the last '.' and the last ',' as the decimal
\* separator if that character is followed to the end of the cleaned string
\* by one, two or three digits, and otherwise the value of the digits with
\* every '.', ',' and whitespace deleted.
C11_DecimalSepOnlyBeforeDigits ==
    (ppc = "done" /\ branch \in {"integer", "decimal"}) =>
        LET cleaned == Cleaned(price_str)
            later   == IF RFind(cleaned, ".") > RFind(cleaned, ",") THEN "." ELSE ","
        IN  price_num =
                IF TailIsOneToThreeDigits(cleaned)
                THEN ParseFloat(DecimalCore(cleaned, later))
                ELSE ParseFloat(Drop(cleaned, {".", ","} \cup Whitespace))

IsDigits(s) == s # <<>> /\ \A p \in 1..Len(s) : s[p] \in Digits

RECURSIVE IsGroups(_)
\* Zero or more groups of a '.' or a space and three digits.
IsGroups(s) ==
    \/ s = <<>>
    \/ /\ Len(s) >= 4
       /\ s[1] \in {".", " "}
       /\ IsDigits(SubSeq(s, 2, 4))
       /\ IsGroups(SubSeq(s, 5, Len(s)))

\* A digit string of any length, or one to three digits and groups of three.
IsIntegerPart(s) ==
    \/ IsDigits(s)
    \/ \E k \in 1..3 :
           /\ k <= Len(s)
           /\ IsDigits(SubSeq(s, 1, k))
           /\ IsGroups(SubSeq(s, k + 1, Len(s)))

\* An integer part, optionally with ',' and one or two decimals.
IsAmount(s) ==
    \/ IsIntegerPart(s)
    \/ \E c \in 1..Len(s) :
           /\ s[c] = ","
           /\ IsIntegerPart(SubSeq(s, 1, c - 1))
           /\ Len(s) - c \in {1, 2}
           /\ IsDigits(SubSeq(s, c + 1, Len(s)))

\* Nothing, or a currency token after at most one space.
CurrencySuffixes ==
    LET tokens == {<<"k", "r", ".">>, <<"k", "r">>, <<"D", "K", "K">>}
    IN  {<<>>} \cup tokens \cup {<<sp>> \o tk : sp \in ReWhitespace, tk \in tokens}

\* A text that is a single price, such as '3250 kr.' or '3.250 kr.'.
IsSinglePrice(s) ==
    \E k \in 1..Len(s) :
        /\ IsAmount(SubSeq(s, 1, k))
        /\ SubSeq(s, k + 1, Len(s)) \in CurrencySuffixes

\* C12: for every text that is a single price,
\* normalize_price(extract_price_string(text)) = normalize_price(text).
C12_ExtractPreservesPrice ==
    (origin = "extract" /\ ppc = "done" /\ IsSinglePrice(txt)) =>
        price_num = prev_num

----------------------------------------------------------------------------
(* search_pricerunner_requests, lines 301-318: the records assembled from  *)
(* the parsed "products" array.  A JSON value is a record tagged by type:  *)
(* null, str (characters), float (<<m, e>>) or obj (its fields, a missing  *)
(* key reading as null, which is what dict.get returns).                   *)

Null == [t |-> "null"]
JStr(cs) == [t |-> "str", v |-> cs]
JFloat(m, e) == [t |-> "float", v |-> <<m, e>>]
Product(nm, lp, u) == [t |-> "obj", name |-> nm, lowestPrice |-> lp, url |-> u]
Price(am, cur) == [t |-> "obj", amount |-> am, currency |-> cur]

NoError == ""

\* Python truthiness of a JSON value.
Truthy(x) ==
    IF x.t = "null" THEN FALSE
    ELSE IF x.t = "str" THEN x.v # <<>>
    ELSE IF x.t = "float" THEN x.v[1] # 0
    ELSE TRUE

\* f"{x}" for a JSON value that is a string or a float.
Format(x) == IF x.t = "str" THEN x.v ELSE Str(x.v)

\* lp = p.get('lowestPrice') or {}; price = lp.get('amount') if lp is a dict
AmountOf(p) ==
    LET lp == p.lowestPrice
    IN  IF Truthy(lp) /\ lp.t = "obj" THEN lp.amount ELSE Null

\* price_str = f"{price} {lp.get('currency','')}".strip() if price else ''
PriceStr(p) ==
    IF Truthy(AmountOf(p))
    THEN Strip(Format(AmountOf(p)) \o <<" ">>
               \o (IF p.lowestPrice.currency.t = "null" THEN <<>>
                   ELSE Format(p.lowestPrice.currency)))
    ELSE <<>>

PriceRunnerBase == "https://www.pricerunner.dk"

\* urljoin('https://www.pricerunner.dk', path) for a path from the site root.
UrlJoin(path) == <<PriceRunnerBase>> \o path

\* The exception one loop iteration raises, NoError if none: a product that
\* is not a dict has no .get; urljoin refuses a path that is not a string.
RaisedBy(p) ==
    IF p.t # "obj" THEN "AttributeError"
    ELSE IF Truthy(p.url) /\ p.url.t # "str" THEN "TypeError"
    ELSE NoError

\* The record appended for product p.
RecordOf(p) ==
    [site |-> "pricerunner",
     title |-> IF p.name.t = "str" THEN p.name.v ELSE None,
     price |-> PriceStr(p),
     price_num |-> NormalizePrice(PriceStr(p)),
     url |-> IF Truthy(p.url) THEN UrlJoin(p.url.v) ELSE None]

\* products[:max_results]
Limit == IF Len(products) < max_results THEN Len(products) ELSE max_results

\* Bounds and inputs of record assembly.
MaxProducts == 3
ProductEntries ==
    { JFloat(5, 0),
      Product(JStr(<<"a">>), Price(JStr(<<"1", "0", ".", "0", "0">>), JStr(<<"D", "K", "K">>)),
              JStr(<<"/", "a">>)),
      Product(Null, Null, Null),
      Product(JStr(<<"b">>), Price(JFloat(125, 1), Null), JStr(<<"/", "b">>)),
      Product(JStr(<<"c">>), JStr(<<"x">>), JFloat(5, 0)) }

AInit ==
    /\ products \in SeqsUpTo(ProductEntries, MaxProducts)
    /\ json_ok \in BOOLEAN
    /\ max_results \in 1..MaxProducts
    /\ items = <<>>
    /\ at = 1
    /\ raised = NoError
    /\ apc = "parse"

\* products = json.loads(arr_text)
ALoad ==
    /\ apc = "parse"
    /\ json_ok
    /\ apc' = "loop"
    /\ UNCHANGED <<products, json_ok, max_results, items, at, raised, jvars, pvars, mvars>>

\* except Exception: return items
ALoadFailed ==
    /\ apc = "parse"
    /\ ~json_ok
    /\ apc' = "returned"
    /\ UNCHANGED <<products, json_ok, max_results, items, at, raised, jvars, pvars, mvars>>

\* One iteration of `for p in products[:max_results]`.
AStep ==
    /\ apc = "loop"
    /\ at <= Limit
    /\ IF RaisedBy(products[at]) # NoError
       THEN /\ raised' = RaisedBy(products[at])
            /\ apc' = "raised"
            /\ UNCHANGED <<items, at>>
       ELSE /\ items' = Append(items, RecordOf(products[at]))
            /\ at' = at + 1
            /\ UNCHANGED <<raised, apc>>
    /\ UNCHANGED <<products, json_ok, max_results, jvars, pvars, mvars>>

\* time.sleep(1); return items
AReturn ==
    /\ apc = "loop"
    /\ at > Limit
    /\ apc' = "returned"
    /\ UNCHANGED <<products, json_ok, max_results, items, at, raised, jvars, pvars, mvars>>

ANext == ALoad \/ ALoadFailed \/ AStep \/ AReturn

\* C6: record assembly never raises, and a malformed entry does not abort
\* the rest: the call returns, with one record for every entry of
\* products[:max_results], each well-formed entry's record being its own.
C6_MalformedEntryDoesNotAbort ==
    /\ apc # "raised"
    /\ (apc = "returned" /\ json_ok) =>
          /\ Len(items) = Limit
          /\ \A k \in 1..Limit :
                 RaisedBy(products[k]) = NoError => items[k] = RecordOf(products[k])

----------------------------------------------------------------------------
(* main, lines 496-553: the price filter, the sort and the row pairing of  *)
(* the comparison output.  dba and pr are the search results; dba_f and    *)
(* pr_f are what main rebinds the names dba and pr to at lines 525-526.    *)

\* a < b for floats.
Less(a, b) == a[1] * Pow10(b[2]) < b[1] * Pow10(a[2])

\* _parse_price_arg(s); an option that was not given is None.
ParsePriceArg(s) ==
    LET v == NormalizePrice(s)
    IN  IF v # None THEN v
            ELSE ParseFloat(Keep(Replace(Replace(s, <<".">>, <<>>), <<",">>, <<".">>),
                             Digits \cup {"."}))

\* A faulty variant of InRange: the lower bound is exclusive.
InRangeExclusive(it, lo, hi) ==
    LET pn == it.price_num
    IN  /\ pn # None
        /\ ~(lo # None /\ ~Less(lo, pn))
        /\ ~(hi # None /\ Less(hi, pn))

\* in_range(it), minp and maxp being lo and hi.
InRange(it, lo, hi) ==
    LET pn == it.price_num
    IN  /\ pn # None
        /\ ~(lo # None /\ Less(pn, lo))
        /\ ~(hi # None /\ Less(hi, pn))

\* [it for it in list if in_range(it)], when a bound was parsed.
Filtered(list, lo, hi) ==
    IF lo # None \/ hi # None
    THEN SelectSeq(list, LAMBDA it : InRange(it, lo, hi))
    ELSE list

\* A faulty variant of KeyLess: equal keys count as smaller, which reverses ties.
KeyLessOrEqual(a, b) ==
    \/ b.price_num = None
    \/ a.price_num # None /\ ~Less(b.price_num, a.price_num)

\* keyfn(a) < keyfn(b), keyfn being price_num, or float('inf') for None.
KeyLess(a, b) ==
    /\ a.price_num # None
    /\ b.price_num = None \/ Less(a.price_num, b.price_num)

\* x put into a sorted list behind every element that is not greater.
RECURSIVE InsertByKey(_, _)
InsertByKey(sorted, x) ==
    IF sorted = <<>> THEN <<x>>
    ELSE IF KeyLess(x, Head(sorted)) THEN <<x>> \o sorted
    ELSE <<Head(sorted)>> \o InsertByKey(Tail(sorted), x)

\* sorted(items, key=keyfn): Python's sort is stable.
RECURSIVE SortItemsByPrice(_)
SortItemsByPrice(its) ==
    IF its = <<>> THEN <<>>
    ELSE InsertByKey(SortItemsByPrice(SubSeq(its, 1, Len(its) - 1)), its[Len(its)])

DefaultRows == 10

\* n=args.top if args.top and args.top>0 else 10
RowCount(t) == IF t > 0 THEN t ELSE DefaultRows

\* left = dba_items[i] if i < len(dba_items) else None, and right likewise.
RowAt(d, p, k) ==
    [left  |-> IF k <= Len(d) THEN d[k] ELSE None,
     right |-> IF k <= Len(p) THEN p[k] ELSE None]

Max3(a, b, c) ==
    IF a >= b /\ a >= c THEN a ELSE IF b >= c THEN b ELSE c

\* A faulty variant of TableRows: every row built is printed.
TableRowsUncut(d, p, cnt) ==
    [k \in 1..Max3(Len(d), Len(p), cnt) |-> RowAt(d, p, k)]

\* print_comparison_table: max(len, len, n) rows are built, rows[:n] printed.
TableRows(d, p, cnt) ==
    SubSeq([k \in 1..Max3(Len(d), Len(p), cnt) |-> RowAt(d, p, k)], 1, cnt)

\* print_comparison_markdown: for i in range(n)
MarkdownRows(d, p, cnt) == [k \in 1..cnt |-> RowAt(d, p, k)]

\* print_comparison_grid: for i in range(n), printed for idx in range(n)
GridRows(d, p, cnt) == [k \in 1..cnt |-> RowAt(d, p, k)]

\* Bounds and inputs of the pipeline.
MaxDba == 3
MaxPr == 1
MaxTop == 5
DbaPrices == {None, <<4995, 1>>, <<500, 0>>, <<3000, 0>>, <<30005, 1>>}
PrPrices == {None, <<500, 0>>}
MinArgs == {None, <<"5", "0", "0">>}
MaxArgs == {None, <<"3", ".", "0", "0", "0">>, <<"x">>}

\* The records of one site: the title tells the records of a list apart.
Listings(site, prices, len) ==
    {[k \in 1..Len(f) |-> [site |-> site, title |-> k, price_num |-> f[k]]] :
        f \in SeqsUpTo(prices, len)}

MInit ==
    /\ dba \in Listings("dba", DbaPrices, MaxDba)
    /\ pr \in Listings("pricerunner", PrPrices, MaxPr)
    /\ min_price \in MinArgs
    /\ max_price \in MaxArgs
    /\ top = 0
    /\ minp = None
    /\ maxp = None
    /\ dba_f = <<>>
    /\ pr_f = <<>>
    /\ d_sorted = <<>>
    /\ p_sorted = <<>>
    /\ rows = <<>>
    /\ mpc = "found"

\* Lines 510-527.
Filter ==
    /\ mpc = "found"
    /\ minp' = ParsePriceArg(min_price)
    /\ maxp' = ParsePriceArg(max_price)
    /\ dba_f' = Filtered(dba, minp', maxp')
    /\ pr_f' = Filtered(pr, minp', maxp')
    /\ mpc' = "filtered"
    /\ UNCHANGED <<dba, pr, min_price, max_price, top, d_sorted, p_sorted, rows>>
    /\ UNCHANGED <<jvars, pvars, avars>>

\* Lines 546-547.
Sort ==
    /\ mpc = "filtered"
    /\ d_sorted' = SortItemsByPrice(dba_f)
    /\ p_sorted' = SortItemsByPrice(pr_f)
    /\ mpc' = "sorted"
    /\ UNCHANGED <<dba, pr, min_price, max_price, top, minp, maxp, dba_f, pr_f, rows>>
    /\ UNCHANGED <<jvars, pvars, avars>>

\* Line 553: --format text, with whatever --top was given.
PrintTable ==
    /\ mpc = "sorted"
    /\ \E t \in 0..MaxTop :
           /\ top' = t
           /\ rows' = TableRows(d_sorted, p_sorted, RowCount(t))
    /\ mpc' = "printed"
    /\ UNCHANGED <<dba, pr, min_price, max_price, minp, maxp, dba_f, pr_f,
                   d_sorted, p_sorted>>
    /\ UNCHANGED <<jvars, pvars, avars>>

\* Line 549: --format markdown.
PrintMarkdown ==
    /\ mpc = "sorted"
    /\ \E t \in 0..MaxTop :
           /\ top' = t
           /\ rows' = MarkdownRows(d_sorted, p_sorted, RowCount(t))
    /\ mpc' = "printed"
    /\ UNCHANGED <<dba, pr, min_price, max_price, minp, maxp, dba_f, pr_f,
                   d_sorted, p_sorted>>
    /\ UNCHANGED <<jvars, pvars, avars>>

\* Line 551: --format grid.
PrintGrid ==
    /\ mpc = "sorted"
    /\ \E t \in 0..MaxTop :
           /\ top' = t
           /\ rows' = GridRows(d_sorted, p_sorted, RowCount(t))
    /\ mpc' = "printed"
    /\ UNCHANGED <<dba, pr, min_price, max_price, minp, maxp, dba_f, pr_f,
                   d_sorted, p_sorted>>
    /\ UNCHANGED <<jvars, pvars, avars>>

MNext == Filter \/ Sort \/ PrintTable \/ PrintMarkdown \/ PrintGrid

----------------------------------------------------------------------------
(* The pipeline's claims.                                                  *)

\* a <= b for floats, by cross-multiplication.
AtMost(a, b) == a[1] * Pow10(b[2]) <= b[1] * Pow10(a[2])

\* price_num is present and lies in [minp, maxp], an absent bound not binding.
WithinBounds(pn) ==
    /\ pn # None
    /\ minp = None \/ AtMost(minp, pn)
    /\ maxp = None \/ AtMost(pn, maxp)

\* out holds exactly the records of list that satisfy WithinBounds, in the
\* order of list (a record's title is its position in the search result).
KeepsExactlyWithin(list, out) ==
    /\ \A k \in 1..Len(out) :
           out[k].title \in 1..Len(list) /\ out[k] = list[out[k].title]
    /\ \A a, b \in 1..Len(out) : a < b => out[a].title < out[b].title
    /\ {out[k].title : k \in 1..Len(out)}
           = {k \in 1..Len(list) : WithinBounds(list[k].price_num)}

\* C7: the price filter keeps exactly the records whose price_num is
\* present and within [minp, maxp], bounds included and an absent bound
\* unbounded, in their original order; with no bound both lists are
\* unchanged, and with any bound no record without price_num is kept.
C7_FilterKeepsExactlyInRange ==
    mpc \in {"filtered", "sorted", "printed"} =>
        IF minp = None /\ maxp = None
        THEN dba_f = dba /\ pr_f = pr
        ELSE /\ KeepsExactlyWithin(dba, dba_f)
             /\ KeepsExactlyWithin(pr, pr_f)
             /\ \A k \in 1..Len(dba_f) : dba_f[k].price_num # None
             /\ \A k \in 1..Len(pr_f) : pr_f[k].price_num # None

\* C7 witness: bounds 500 and 3000 were given and the search found a record
\* at each bound and one without price; just the two at the bounds are kept.
C7_Witness ==
    /\ mpc = "filtered"
    /\ minp = <<500, 0>>
    /\ maxp = <<3000, 0>>
    /\ {dba[k].price_num : k \in 1..Len(dba)} = {None, <<500, 0>>, <<3000, 0>>}
    /\ Len(dba_f) = 2

\* out is inp reordered: the same records, each once.
IsPermutation(inp, out) ==
    /\ Len(out) = Len(inp)
    /\ \A k \in 1..Len(inp) :
           Cardinality({q \in 1..Len(out) : out[q] = inp[k]}) = 1

SortedStably(inp, out) ==
    /\ IsPermutation(inp, out)
    /\ \A a, b \in 1..Len(out) : a < b =>
           /\ out[a].price_num = None => out[b].price_num = None
           /\ (out[a].price_num # None /\ out[b].price_num # None)
                  => AtMost(out[a].price_num, out[b].price_num)
           /\ out[a].price_num = out[b].price_num => out[a].title < out[b].title

\* The list is in the order the search (and the filter) left it in.
InFoundOrder(list) ==
    \A a, b \in 1..Len(list) : a < b => list[a].title < list[b].title

\* C8: sort_items_by_price returns a permutation of its input with every
\* priced record before every unpriced one, the priced ones ascending, and
\* records of equal price_num (unpriced ones among themselves too) in their
\* input order; the input list keeps its order.
C8_SortStableAbsentLast ==
    mpc \in {"sorted", "printed"} =>
        /\ SortedStably(dba_f, d_sorted)
        /\ SortedStably(pr_f, p_sorted)
        /\ InFoundOrder(dba_f)
        /\ InFoundOrder(pr_f)

\* C8 witness: three records, an unpriced one ahead of two of equal price;
\* sorted, the two come first in their input order.
C8_Witness ==
    /\ mpc = "sorted"
    /\ Len(dba_f) = 3
    /\ dba_f[1].price_num = None
    /\ dba_f[2].price_num = dba_f[3].price_num
    /\ dba_f[2].price_num # None
    /\ d_sorted = <<dba_f[2], dba_f[3], dba_f[1]>>

\* C9: every format prints exactly n rows, whatever the lengths of the two
\* lists; row i holds the i-th record of each list, None on a side whose
\* list is shorter.
C9_RowsPairedByPosition ==
    mpc = "printed" =>
        /\ Len(rows) = RowCount(top)
        /\ \A k \in 1..Len(rows) :
               /\ rows[k].left = IF k <= Len(d_sorted) THEN d_sorted[k] ELSE None
               /\ rows[k].right = IF k <= Len(p_sorted) THEN p_sorted[k] ELSE None

\* C9 witness: lists of 3 and 1 with n = 5: five rows, rows 4 and 5 empty on
\* both sides, row 2 empty on the right only.
C9_Witness ==
    /\ mpc = "printed"
    /\ Len(d_sorted) = 3
    /\ Len(p_sorted) = 1
    /\ top = 5
    /\ Len(rows) = 5
    /\ rows[4] = [left |-> None, right |-> None]
    /\ rows[5] = [left |-> None, right |-> None]
    /\ rows[2].left # None
    /\ rows[2].right = None

----------------------------------------------------------------------------
(* One specification per component; the other components' variables stay  *)
(* parked, as the functions share no state.                                *)

JParked ==
    /\ text = <<>> /\ key = <<>> /\ i = 0 /\ j = 0 /\ in_str = FALSE
    /\ esc = FALSE /\ depth = 0 /\ arr_text = None /\ jpc = "idle"

PParked ==
    /\ price_str = <<>> /\ price_num = None /\ branch = "none"
    /\ prev_num = None /\ origin = "input" /\ ppc = "idle" /\ txt = None

AParked ==
    /\ products = <<>> /\ json_ok = TRUE /\ max_results = 0 /\ items = <<>>
    /\ at = 0 /\ raised = NoError /\ apc = "idle"

MParked ==
    /\ dba = <<>> /\ pr = <<>> /\ min_price = None /\ max_price = None
    /\ top = 0 /\ minp = None /\ maxp = None /\ dba_f = <<>> /\ pr_f = <<>>
    /\ d_sorted = <<>> /\ p_sorted = <<>> /\ rows = <<>> /\ mpc = "idle"

InitJson == JInit /\ PParked /\ AParked /\ MParked
InitPrice == PInit /\ JParked /\ AParked /\ MParked
InitAssemble == AInit /\ JParked /\ PParked /\ MParked
InitPipeline == MInit /\ JParked /\ PParked /\ AParked

SpecJson == InitJson /\ [][JNext]_vars

SpecPrice == InitPrice /\ [][PNext]_vars

SpecAssemble == InitAssemble /\ [][ANext]_vars

SpecPipeline == InitPipeline /\ [][MNext]_vars

====
